---- MODULE Spec2Model ----
(***************************************************************************)
(* AnthropicProvider of execution-anthropic (src/src/index.ts).            *)
(*                                                                         *)
(* Strings are sequences of one-character strings, so that startsWith,     *)
(* the key-format regular expression, JSON.stringify, trim and the secret  *)
(* redaction are computed character by character.  A string | undefined    *)
(* value is a record [def, str]; Undefined has def = FALSE.  Fixed texts   *)
(* that the code never inspects (error messages, stack frames) are single  *)
(* tokens of a sequence.                                                   *)
(***************************************************************************)
EXTENDS Integers, Sequences, FiniteSets, TLC

(* ------------------------------ bounds -------------------------------- *)
NumCalls == 2       \* execute() calls that may be in flight together
MaxTail == 1        \* characters appended to a model-id stem
MaxSuffix == 1      \* characters of a generated key suffix
MaxMsgs == 2        \* messages of a generated request
MaxBlocks == 2      \* content blocks of a generated vendor response
MaxTok == 1         \* largest token counter a vendor response reports

Calls == 1..NumCalls

(* ------------------------- strings and values ------------------------- *)
Undefined == [def |-> FALSE, str |-> <<>>]
Str(s) == [def |-> TRUE, str |-> s]

\* JavaScript truthiness of a string | undefined value
Truthy(v) == v.def /\ v.str # <<>>

\* a || b on string | undefined values
OrElse(a, b) == IF Truthy(a) THEN a ELSE b

\* String.prototype.startsWith
StartsWith(s, p) ==
    /\ Len(s) >= Len(p)
    /\ \A i \in 1..Len(p) : s[i] = p[i]

\* String.prototype.includes
Includes(s, p) ==
    \E i \in 1..(Len(s) + 1) :
        /\ i + Len(p) - 1 <= Len(s)
        /\ \A j \in 1..Len(p) : s[i + j - 1] = p[j]

\* the sequences over S of length at most n
SeqsUpTo(S, n) == UNION {[1..k -> S] : k \in 0..n}

Min(a, b) == IF a <= b THEN a ELSE b

\* the first n characters of s
Truncate(s, n) == SubSeq(s, 1, Min(Len(s), n))

Lower == {"a","b","c","d","e","f","g","h","i","j","k","l","m",
          "n","o","p","q","r","s","t","u","v","w","x","y","z"}
Upper == {"A","B","C","D","E","F","G","H","I","J","K","L","M",
          "N","O","P","Q","R","S","T","U","V","W","X","Y","Z"}
Digits == {"0","1","2","3","4","5","6","7","8","9"}
\* [a-zA-Z0-9_-]
KeyChars == Lower \cup Upper \cup Digits \cup {"_", "-"}
\* what String.prototype.trim removes
WhiteSpace == {" ", "\n", "\t"}

(* --------------------------- supportsModel ---------------------------- *)
Claude == <<"c","l","a","u","d","e">>

supportsModelIncludes(model) ==
    IF ~Truthy(model) THEN FALSE ELSE Includes(model.str, Claude)

supportsModel(model) ==
    IF ~Truthy(model) THEN FALSE ELSE StartsWith(model.str, Claude)

(* ------------------- key resolution and key format -------------------- *)
\* const apiKey = options.apiKey || process.env.ANTHROPIC_API_KEY
ResolveKeyNullish(options, envKey) ==
    IF options.apiKey.def THEN options.apiKey ELSE envKey

ResolveKey(options, envKey) == OrElse(options.apiKey, envKey)

SkAnt == <<"s","k","-","a","n","t">>
DashApi == <<"-","a","p","i">>
Dash == <<"-">>

\* Regular-expression matching by sets of positions: a position is the
\* index of the next character to read.
\* the positions after the literal lit, read from a position of P
Lit(s, P, lit) ==
    {p + Len(lit) : p \in {q \in P : /\ q + Len(lit) - 1 <= Len(s)
                                     /\ \A j \in 1..Len(lit) : s[q + j - 1] = lit[j]}}

\* the positions after one or more characters of class C, read from P
Plus(s, P, C) ==
    UNION {{e \in (p + 1)..(Len(s) + 1) : \A i \in p..(e - 1) : s[i] \in C} : p \in P}

\* /^sk-ant(-api\d+)?-[a-zA-Z0-9_-]+/ without the closing anchor
validatorUnanchored(key) ==
    LET p1 == Lit(key, {1}, SkAnt)
        p2 == p1 \cup Plus(key, Lit(key, p1, DashApi), Digits)
        p3 == Lit(key, p2, Dash)
    IN  Plus(key, p3, KeyChars) # {}

\* validator: (key) => /^sk-ant(-api\d+)?-[a-zA-Z0-9_-]+$/.test(key)
validator(key) ==
    LET p1 == Lit(key, {1}, SkAnt)
        p2 == p1 \cup Plus(key, Lit(key, p1, DashApi), Digits)
        p3 == Lit(key, p2, Dash)
        p4 == Plus(key, p3, KeyChars)
    IN  (Len(key) + 1) \in p4

\* redactor.validateKey(apiKey, 'anthropic') applies the validator
\* registered under that name
validateKey(key) == [valid |-> validator(key)]

(* ---------------------------- redaction ------------------------------- *)
Redacted == "[REDACTED]"

Max(S) == CHOOSE x \in S : \A y \in S : y <= x

\* /sk-ant-[a-zA-Z0-9_-]+/g : where the greedy match that starts at i ends
\* (the position after it), 0 when none starts there
MatchAnthropic(t, i) ==
    LET ends == Plus(t, Lit(t, Lit(t, {i}, SkAnt), Dash), KeyChars)
    IN  IF ends = {} THEN 0 ELSE Max(ends)

\* /sk-ant-api\d+-[a-zA-Z0-9_-]+/g
MatchAnthropicApi(t, i) ==
    LET ends == Plus(t, Lit(t, Plus(t, Lit(t, Lit(t, {i}, SkAnt), DashApi),
                                    Digits), Dash), KeyChars)
    IN  IF ends = {} THEN 0 ELSE Max(ends)

\* where the match of the named custom pattern that starts at i ends
MatchPattern(name, t, i) ==
    IF name = "anthropic" THEN MatchAnthropic(t, i) ELSE MatchAnthropicApi(t, i)

\* String.prototype.replace with a /g pattern and the redaction text: the
\* scan from position i.  (The end of the match and the next position are
\* bound once, as values.)
RECURSIVE ReplaceAll(_, _, _)
ReplaceAll(t, i, name) ==
    IF i > Len(t) THEN <<>>
    ELSE CHOOSE r \in {IF m # 0
                       THEN <<Redacted>> \o ReplaceAll(t, m, name)
                       ELSE <<t[i]>> \o ReplaceAll(t, n, name) :
                       m \in {MatchPattern(name, t, i)}, n \in {i + 1}} : TRUE

\* the secret guard's customPatterns, applied in order
RedactSecrets(t) ==
    CHOOSE r \in {ReplaceAll(once, 1, "anthropic-api") :
                  once \in {ReplaceAll(t, 1, "anthropic")}} : TRUE

(* -------------------------- JSON.stringify ---------------------------- *)
JNull == [t |-> "null", n |-> 0, s |-> <<>>, keys |-> <<>>, items |-> <<>>]
JNum(n) == [t |-> "num", n |-> n, s |-> <<>>, keys |-> <<>>, items |-> <<>>]
JStr(s) == [t |-> "str", n |-> 0, s |-> s, keys |-> <<>>, items |-> <<>>]
JArr(items) == [t |-> "arr", n |-> 0, s |-> <<>>, keys |-> <<>>, items |-> items]
JObj(keys, items) == [t |-> "obj", n |-> 0, s |-> <<>>, keys |-> keys, items |-> items]

DigitOf(d) == CASE d = 0 -> "0" [] d = 1 -> "1" [] d = 2 -> "2" [] d = 3 -> "3"
                [] d = 4 -> "4" [] d = 5 -> "5" [] d = 6 -> "6" [] d = 7 -> "7"
                [] d = 8 -> "8" [] d = 9 -> "9"

RECURSIVE NumText(_)
NumText(n) == IF n < 10 THEN <<DigitOf(n)>> ELSE NumText(n \div 10) \o <<DigitOf(n % 10)>>

\* QuoteJSONString: the escapes of the characters the model uses
EscapeChar(ch) ==
    CASE ch = "\"" -> <<"\\", "\"">>
      [] ch = "\\" -> <<"\\", "\\">>
      [] ch = "\n" -> <<"\\", "n">>
      [] ch = "\t" -> <<"\\", "t">>
      [] OTHER -> <<ch>>

RECURSIVE EscapeAll(_)
EscapeAll(s) == IF s = <<>> THEN <<>> ELSE EscapeChar(Head(s)) \o EscapeAll(Tail(s))

Quote(s) == <<"\"">> \o EscapeAll(s) \o <<"\"">>

\* parts joined by sep
RECURSIVE Join(_, _)
Join(parts, sep) ==
    IF parts = <<>> THEN <<>>
    ELSE IF Len(parts) = 1 THEN parts[1]
    ELSE parts[1] \o sep \o Join(Tail(parts), sep)

\* JSON.stringify(v, null, gap): SerializeJSONProperty with the current
\* indentation indent; gap = <<>> is JSON.stringify(v)
RECURSIVE Serialize(_, _, _)
Serialize(v, gap, indent) ==
    LET stepback == indent
        ind == indent \o gap
        sepIn == IF gap = <<>> THEN <<",">> ELSE <<",", "\n">> \o ind
        open(b) == IF gap = <<>> THEN <<b>> ELSE <<b, "\n">> \o ind
        close(b) == IF gap = <<>> THEN <<b>> ELSE <<"\n">> \o stepback \o <<b>>
        colon == IF gap = <<>> THEN <<":">> ELSE <<":", " ">>
    IN  CASE v.t = "null" -> <<"n","u","l","l">>
          [] v.t = "num" -> NumText(v.n)
          [] v.t = "str" -> Quote(v.s)
          [] v.t = "arr" ->
                IF v.items = <<>> THEN <<"[", "]">>
                ELSE open("[")
                     \o Join([k \in 1..Len(v.items) |-> Serialize(v.items[k], gap, ind)], sepIn)
                     \o close("]")
          [] v.t = "obj" ->
                IF v.items = <<>> THEN <<"{", "}">>
                ELSE open("{")
                     \o Join([k \in 1..Len(v.items) |->
                                Quote(v.keys[k]) \o colon \o Serialize(v.items[k], gap, ind)],
                             sepIn)
                     \o close("}")

JSONStringify(v) == Serialize(v, <<>>, <<>>)
JSONStringifyPretty(v) == Serialize(v, <<" ", " ">>, <<>>)

(* ------------------------ request translation ------------------------ *)
\* Message.content: string | string[] | null
ContentString(s) == [kind |-> "string", str |-> s, arr |-> <<>>]
ContentArray(a) == [kind |-> "array", str |-> <<>>, arr |-> a]
ContentNull == [kind |-> "null", str |-> <<>>, arr |-> <<>>]

Msg(role, content) == [role |-> role, content |-> content]

\* the JSON value of a non-string content
ContentJson(content) ==
    IF content.kind = "null" THEN JNull
    ELSE JArr([k \in 1..Len(content.arr) |-> JStr(content.arr[k])])

\* typeof msg.content === 'string' ? msg.content : JSON.stringify(msg.content)
ContentText(content) ==
    IF content.kind = "string" THEN content.str ELSE JSONStringify(ContentJson(content))

IsSystemRoleOnly(role) == role = "system"

\* msg.role === 'system' || msg.role === 'developer'
IsSystemRole(role) == role = "system" \/ role = "developer"

\* the loop's systemPrompt: each system message's text followed by '\n\n'
RECURSIVE SystemPromptOf(_)
SystemPromptOf(messages) ==
    IF messages = <<>> THEN <<>>
    ELSE (IF IsSystemRole(Head(messages).role)
          THEN ContentText(Head(messages).content) \o <<"\n", "\n">>
          ELSE <<>>)
         \o SystemPromptOf(Tail(messages))

\* the loop's messages: one turn per message that is not a system message
RECURSIVE TurnsOf(_)
TurnsOf(messages) ==
    IF messages = <<>> THEN <<>>
    ELSE (IF IsSystemRole(Head(messages).role)
          THEN <<>>
          ELSE <<[role |-> Head(messages).role,
                  content |-> ContentText(Head(messages).content)]>>)
         \o TurnsOf(Tail(messages))

\* String.prototype.trim
RECURSIVE TrimStart(_)
TrimStart(s) ==
    IF s # <<>> /\ Head(s) \in WhiteSpace THEN TrimStart(Tail(s)) ELSE s

RECURSIVE TrimEnd(_)
TrimEnd(s) ==
    IF s # <<>> /\ s[Len(s)] \in WhiteSpace THEN TrimEnd(SubSeq(s, 1, Len(s) - 1)) ELSE s

Trim(s) == TrimEnd(TrimStart(s))

DefaultModel ==
    <<"c","l","a","u","d","e","-","3","-","o","p","u","s","-",
      "2","0","2","4","0","2","2","9">>
DefaultMaxTokens == 4096
DefaultToolDescription == <<"Output data in this structured format">>

\* a number | undefined value; 0 is falsy
NoNum == [def |-> FALSE, num |-> 0]
Num(n) == [def |-> TRUE, num |-> n]

\* Request.responseFormat (any): absent, or {type, json_schema: {name,
\* description, schema}}
NoFormat ==
    [def |-> FALSE, type |-> "", name |-> "", description |-> Undefined, schema |-> ""]
Format(type, name, description, schema) ==
    [def |-> TRUE, type |-> type, name |-> name, description |-> description,
     schema |-> schema]

\* request.responseFormat?.type === 'json_schema'
WantsJsonSchema(request) ==
    request.responseFormat.def /\ request.responseFormat.type = "json_schema"

NoToolChoice == [def |-> FALSE, type |-> "", name |-> ""]

\* the argument of client.messages.create
CreateParams(request, options) ==
    [model |-> OrElse(OrElse(options.model, request.model), Str(DefaultModel)).str,
     system |-> IF Trim(SystemPromptOf(request.messages)) = <<>>
                THEN Undefined
                ELSE Str(Trim(SystemPromptOf(request.messages))),
     messages |-> TurnsOf(request.messages),
     max_tokens |-> IF options.maxTokens.def /\ options.maxTokens.num # 0
                    THEN options.maxTokens.num
                    ELSE DefaultMaxTokens,
     temperature |-> options.temperature,
     tools |-> IF WantsJsonSchema(request)
               THEN <<[name |-> request.responseFormat.name,
                       description |-> OrElse(request.responseFormat.description,
                                              Str(DefaultToolDescription)).str,
                       input_schema |-> request.responseFormat.schema]>>
               ELSE <<>>,
     tool_choice |-> IF WantsJsonSchema(request)
                     THEN [def |-> TRUE, type |-> "tool",
                           name |-> request.responseFormat.name]
                     ELSE NoToolChoice]

(* ------------------------- response handling -------------------------- *)
\* a content block of the vendor response
TextBlock(text) == [type |-> "text", text |-> text, input |-> JNull]
ToolUseBlock(input) == [type |-> "tool_use", text |-> <<>>, input |-> input]
ThinkingBlock == [type |-> "thinking", text |-> <<>>, input |-> JNull]

\* response.content.find((block) => block.type === 'tool_use'): the index
\* of the block found, 0 for undefined
RECURSIVE FindFrom(_, _)
FindFrom(content, i) ==
    IF i > Len(content) THEN 0
    ELSE IF content[i].type = "tool_use" THEN i
    ELSE FindFrom(content, i + 1)

FindToolUseAtHead(content) ==
    IF content # <<>> /\ content[1].type = "tool_use" THEN 1 ELSE 0

FindToolUse(content) == FindFrom(content, 1)

TypeErrorText == <<"Cannot read properties of undefined (reading 'type')">>

\* lines 186-198: the text of the response, or the TypeError that reading
\* the type of a missing first block throws
ExtractText(request, response) ==
    IF WantsJsonSchema(request)
    THEN [threw |-> FALSE,
          text |-> IF FindToolUse(response.content) # 0
                   THEN JSONStringifyPretty(
                            response.content[FindToolUse(response.content)].input)
                   ELSE <<>>]
    ELSE IF response.content = <<>>
         THEN [threw |-> TRUE, text |-> <<>>]
         ELSE [threw |-> FALSE,
               text |-> IF response.content[1].type = "text"
                        THEN response.content[1].text
                        ELSE <<>>]

UsageSwapped(response) ==
    [inputTokens |-> response.usage.output_tokens,
     outputTokens |-> response.usage.input_tokens]

\* usage: {inputTokens: response.usage.input_tokens, outputTokens: ...}
UsageOf(response) ==
    [inputTokens |-> response.usage.input_tokens,
     outputTokens |-> response.usage.output_tokens]

(* ------------------------------ errors -------------------------------- *)
\* an Error: its stack starts with its name and message, then the frames
StackOf(name, message) == <<name, ": ">> \o message \o <<"\n    at ">>

NewError(name, message) ==
    [name |-> name, message |-> message, stack |-> StackOf(name, message),
     provider |-> ""]

KeyRequiredText ==
    <<"Anthropic ", "API key is required",
      ". Set ANTHROPIC_API_KEY environment variable.">>
InvalidFormatText == <<"Invalid Anthropic API key format">>

MaxMessageLength == 500

\* configureErrorSanitizer at module load, from NODE_ENV
SanitizerConfig(nodeEnv) ==
    [enabled |-> TRUE,
     environment |-> IF nodeEnv = "production" THEN "production" ELSE "development",
     sanitizeStackTraces |-> (nodeEnv = "production"),
     maxMessageLength |-> MaxMessageLength]

\* createSafeError(error, {provider: 'anthropic'}) under the configuration:
\* the message goes through the secret guard and the length cap, the stack
\* through the secret guard only when sanitizeStackTraces is set
createSafeError(error, provider, config) ==
    [name |-> error.name,
     message |-> Truncate(RedactSecrets(error.message), config.maxMessageLength),
     stack |-> IF config.sanitizeStackTraces
               THEN RedactSecrets(error.stack)
               ELSE error.stack,
     provider |-> provider]

(* ------------------------------- state -------------------------------- *)
VARIABLES
    env,        \* process.env.ANTHROPIC_API_KEY
    sanitizer,  \* the error sanitizer's configuration, set at module load
    supports,   \* the last supportsModel call: its argument and its result
    pc,         \* per execute() call: idle, awaiting (suspended at the await), done
    request,    \* per call: the caller's request object
    passed,     \* per call: the request as it was when execute() was called
    options,    \* per call: the options passed
    envRead,    \* per call: the environment value execute() read
    apiKey,     \* per call: the local apiKey
    client,     \* per call: the vendor client constructed
    outbound,   \* per call: the create() request issued, with the key it carries
    creates,    \* per call: how many create() requests were issued
    vendor,     \* per call: the promise create() returned
    result      \* per call: what execute() resolved or rejected with

vars == <<env, sanitizer, supports, pc, request, passed, options, envRead, apiKey,
          client, outbound, creates, vendor, result>>

NoRequest ==
    [messages |-> <<>>, model |-> Undefined, responseFormat |-> NoFormat,
     addMessageCalls |-> 0]
NoOptions ==
    [apiKey |-> Undefined, model |-> Undefined, temperature |-> NoNum,
     maxTokens |-> NoNum, timeout |-> NoNum, retries |-> NoNum]
NoClient == [made |-> FALSE, apiKey |-> <<>>]
NoOutbound == [sent |-> FALSE, auth |-> <<>>, params |-> CreateParams(NoRequest, NoOptions)]
NoResponse ==
    [content |-> <<>>, model |-> <<>>, usage |-> [input_tokens |-> 0, output_tokens |-> 0]]
NoError == [name |-> "", message |-> <<>>, stack |-> <<>>, provider |-> ""]
NoVendor == [state |-> "none", response |-> NoResponse, error |-> NoError]
NoResult ==
    [kind |-> "none", content |-> <<>>, model |-> <<>>,
     usage |-> [inputTokens |-> 0, outputTokens |-> 0], error |-> NoError]

Rejection(error) == [NoResult EXCEPT !.kind = "error", !.error = error]

NodeEnvs == {"production", "development", "test"}

Init ==
    /\ env = Undefined
    /\ sanitizer \in {SanitizerConfig(n) : n \in NodeEnvs}
    /\ supports = [asked |-> FALSE, model |-> Undefined, ret |-> FALSE]
    /\ pc = [c \in Calls |-> "idle"]
    /\ request = [c \in Calls |-> NoRequest]
    /\ passed = [c \in Calls |-> NoRequest]
    /\ options = [c \in Calls |-> NoOptions]
    /\ envRead = [c \in Calls |-> Undefined]
    /\ apiKey = [c \in Calls |-> Undefined]
    /\ client = [c \in Calls |-> NoClient]
    /\ outbound = [c \in Calls |-> NoOutbound]
    /\ creates = [c \in Calls |-> 0]
    /\ vendor = [c \in Calls |-> NoVendor]
    /\ result = [c \in Calls |-> NoResult]

(* ------------------------------ actions ------------------------------- *)
\* the host sets or deletes the environment variable
SetEnv(v) ==
    /\ v # env
    /\ env' = v
    /\ UNCHANGED <<sanitizer, supports, pc, request, passed, options, envRead, apiKey,
                   client, outbound, creates, vendor, result>>

SupportsModel(model) ==
    /\ supports' = [asked |-> TRUE, model |-> model, ret |-> supportsModel(model)]
    /\ UNCHANGED <<env, sanitizer, pc, request, passed, options, envRead, apiKey,
                   client, outbound, creates, vendor, result>>

\* execute(request, options) up to its await: lines 121-183 run in one turn
Execute(c, req, opts) ==
    LET key == ResolveKey(opts, env) IN
    /\ pc[c] = "idle"
    /\ request' = [request EXCEPT ![c] = req]
    /\ passed' = [passed EXCEPT ![c] = req]
    /\ options' = [options EXCEPT ![c] = opts]
    /\ envRead' = [envRead EXCEPT ![c] = env]
    /\ apiKey' = [apiKey EXCEPT ![c] = key]
    /\ IF ~Truthy(key)
       THEN /\ result' = [result EXCEPT ![c] = Rejection(NewError("Error", KeyRequiredText))]
            /\ pc' = [pc EXCEPT ![c] = "done"]
            /\ UNCHANGED <<client, outbound, creates, vendor>>
       ELSE IF ~validateKey(key.str).valid
       THEN /\ result' = [result EXCEPT ![c] = Rejection(NewError("Error", InvalidFormatText))]
            /\ pc' = [pc EXCEPT ![c] = "done"]
            /\ UNCHANGED <<client, outbound, creates, vendor>>
       ELSE /\ client' = [client EXCEPT ![c] = [made |-> TRUE, apiKey |-> key.str]]
            /\ outbound' = [outbound EXCEPT ![c] =
                               [sent |-> TRUE, auth |-> key.str,
                                params |-> CreateParams(req, opts)]]
            /\ creates' = [creates EXCEPT ![c] = @ + 1]
            /\ vendor' = [vendor EXCEPT ![c].state = "pending"]
            /\ pc' = [pc EXCEPT ![c] = "awaiting"]
            /\ UNCHANGED result
    /\ UNCHANGED <<env, sanitizer, supports>>

\* the vendor answers the create() request
VendorFulfil(c, response) ==
    /\ pc[c] = "awaiting"
    /\ vendor[c].state = "pending"
    /\ vendor' = [vendor EXCEPT ![c] = [NoVendor EXCEPT !.state = "fulfilled",
                                                         !.response = response]]
    /\ UNCHANGED <<env, sanitizer, supports, pc, request, passed, options, envRead, apiKey,
                   client, outbound, creates, result>>

\* the create() request fails
VendorReject(c, error) ==
    /\ pc[c] = "awaiting"
    /\ vendor[c].state = "pending"
    /\ vendor' = [vendor EXCEPT ![c] = [NoVendor EXCEPT !.state = "rejected",
                                                         !.error = error]]
    /\ UNCHANGED <<env, sanitizer, supports, pc, request, passed, options, envRead, apiKey,
                   client, outbound, creates, result>>

SettleRequestShared(c) == request[1]

\* the request the continuation reads: the call's own parameter
SettleRequest(c) == request[c]

SettleResultSwallow(req, vend, config) ==
    IF vend.state = "rejected" \/ ExtractText(req, vend.response).threw
    THEN [NoResult EXCEPT !.kind = "response"]
    ELSE [NoResult EXCEPT !.kind = "response",
                          !.content = ExtractText(req, vend.response).text,
                          !.model = vend.response.model,
                          !.usage = UsageOf(vend.response)]

\* lines 185-212: the response built from the vendor's, or the safe error
\* made of whatever the try block threw
SettleResult(req, vend, config) ==
    IF vend.state = "rejected"
    THEN Rejection(createSafeError(vend.error, "anthropic", config))
    ELSE IF ExtractText(req, vend.response).threw
    THEN Rejection(createSafeError(NewError("TypeError", TypeErrorText),
                                   "anthropic", config))
    ELSE [NoResult EXCEPT !.kind = "response",
                          !.content = ExtractText(req, vend.response).text,
                          !.model = vend.response.model,
                          !.usage = UsageOf(vend.response)]

\* execute() after its await
Settle(c) ==
    /\ pc[c] = "awaiting"
    /\ vendor[c].state \in {"fulfilled", "rejected"}
    /\ result' = [result EXCEPT ![c] = SettleResult(SettleRequest(c), vendor[c], sanitizer)]
    /\ pc' = [pc EXCEPT ![c] = "done"]
    /\ UNCHANGED <<env, sanitizer, supports, request, passed, options, envRead, apiKey,
                   client, outbound, creates, vendor>>

(* ------------------------------- inputs -------------------------------- *)
GoodKeyA == SkAnt \o <<"-","a","p","i","0","3","-","A","b","_","1">>
GoodKeyB == SkAnt \o <<"-","x","Y","2">>
BadKey == <<"s","k","-","b","a","d">>

WithKey(k) == [NoOptions EXCEPT !.apiKey = k]

SmallOptions ==
    {NoOptions,
     WithKey(Str(BadKey)),
     [NoOptions EXCEPT !.apiKey = Str(GoodKeyA), !.retries = Num(3), !.timeout = Num(1)]}

SmallEnvs == {Undefined, Str(GoodKeyB)}

ResolveOptions == {NoOptions, WithKey(Str(<<>>))}
ResolveEnvs == {Undefined, Str(<<>>), Str(GoodKeyB), Str(BadKey)}

Hello == <<"H","e","l","l","o","!">>
Helpful == <<"B","e"," ","k","i","n","d",".">>

PlainRequest ==
    [NoRequest EXCEPT !.messages = <<Msg("system", ContentString(Helpful)),
                                     Msg("user", ContentString(Hello))>>,
                      !.model = Str(DefaultModel)]
SchemaRequest ==
    [NoRequest EXCEPT !.messages = <<Msg("user", ContentString(Hello))>>,
                      !.responseFormat = Format("json_schema", "answer", Undefined, "S")]
TextFormatRequest ==
    [NoRequest EXCEPT !.messages = <<Msg("user", ContentString(Hello))>>,
                      !.responseFormat = Format("text", "", Undefined, "")]

SmallRequests == {PlainRequest, SchemaRequest}

Hi == <<"H","i">>
InputA == JObj(<< <<"a">> >>, <<JNum(1)>>)
InputB == JObj(<< <<"b">>, <<"c">> >>, <<JArr(<<JStr(<<"x">>), JNull>>), JObj(<<>>, <<>>)>>)

Response(content, i, o) ==
    [content |-> content, model |-> DefaultModel,
     usage |-> [input_tokens |-> i, output_tokens |-> o]]

SmallResponses == {Response(<<TextBlock(Hi), ToolUseBlock(InputA)>>, 1, 0)}

\* what the vendor client may throw for a request carrying key: an error
\* whose text does not mention the key, and one whose text embeds it
KeyEchoError(key) == NewError("APIError", <<"401 invalid x-api-key ">> \o key)
VendorErrors(key) == {NewError("APIError", <<"529 overloaded">>), KeyEchoError(key)}

ModelStems ==
    {Claude, <<"C","l","a","u","d","e">>, <<"x">> \o Claude,
     <<"g","p","t","-","4">>, <<"g","e","m","i","n","i">>, <<"c","l","o","u","d">>}
ModelIds ==
    {Undefined} \cup
    {Str(SubSeq(w, 1, Min(n, Len(w))) \o t) :
        w \in ModelStems, n \in 0..7, t \in SeqsUpTo({"-", "3", "e", "c"}, MaxTail)}

KeyHeads == {SkAnt, <<"s","k","-","a","n">>, <<"S","K","-","A","N","T">>, <<"x">> \o SkAnt}
KeyApis == {<<>>, DashApi, DashApi \o <<"0">>, DashApi \o <<"0","3">>, DashApi \o <<"x">>}
KeyDashes == {<<>>, Dash}
KeySuffixes == SeqsUpTo({"a", "Z", "7", "_", "-", "!"}, MaxSuffix)
Keys == {h \o a \o d \o x : h \in KeyHeads, a \in KeyApis, d \in KeyDashes, x \in KeySuffixes}

KeyOptions == {WithKey(Undefined)} \cup {WithKey(Str(k)) : k \in Keys}
KeyEnvs == {Undefined, Str(<<>>), Str(GoodKeyB), Str(BadKey)}

Roles == {"user", "assistant", "system", "developer", "tool"}
Contents ==
    {ContentString(Hi), ContentString(<<" ", "a", "\n">>),
     ContentArray(<< <<"a">>, <<"b", "\"">> >>), ContentNull}
Messages == {Msg(r, c) : r \in Roles, c \in Contents}
MessageRequests ==
    {[NoRequest EXCEPT !.messages = m] : m \in SeqsUpTo(Messages, MaxMsgs)}

Blocks ==
    {TextBlock(Hi), TextBlock(<<>>), ToolUseBlock(InputA), ToolUseBlock(InputB),
     ThinkingBlock}
Responses ==
    {Response(b, i, o) : b \in SeqsUpTo(Blocks, MaxBlocks), i \in 0..MaxTok, o \in 0..MaxTok}
ReplyRequests == {PlainRequest, SchemaRequest, TextFormatRequest}

(* --------------------------- specifications --------------------------- *)
\* concurrent execute() calls under a changing environment
Next ==
    \/ \E v \in SmallEnvs : SetEnv(v)
    \/ \E c \in Calls, req \in SmallRequests, opts \in SmallOptions : Execute(c, req, opts)
    \/ \E c \in Calls, r \in SmallResponses : VendorFulfil(c, r)
    \/ \E c \in Calls : VendorReject(c, KeyEchoError(client[c].apiKey))
    \/ \E c \in Calls : Settle(c)

Spec == Init /\ [][Next]_vars

RetryOptions ==
    {NoOptions,
     WithKey(Str(BadKey)),
     WithKey(Str(GoodKeyA)),
     [NoOptions EXCEPT !.apiKey = Str(GoodKeyA), !.retries = Num(3), !.timeout = Num(1)]}

\* concurrent execute() calls over the retries and timeout options; the
\* continuation of a settled promise is eventually run
NextOnce ==
    \/ \E c \in Calls, opts \in RetryOptions : Execute(c, PlainRequest, opts)
    \/ \E c \in Calls, r \in SmallResponses : VendorFulfil(c, r)
    \/ \E c \in Calls : VendorReject(c, KeyEchoError(client[c].apiKey))
    \/ \E c \in Calls : Settle(c)

FairSpec == Init /\ [][NextOnce]_vars /\ \A c \in Calls : WF_vars(Settle(c))

\* concurrent execute() calls with the key absent or empty in the options
NextResolve ==
    \/ \E v \in ResolveEnvs : SetEnv(v)
    \/ \E c \in Calls, opts \in ResolveOptions : Execute(c, PlainRequest, opts)
    \/ \E c \in Calls, r \in SmallResponses : VendorFulfil(c, r)
    \/ \E c \in Calls : VendorReject(c, KeyEchoError(client[c].apiKey))
    \/ \E c \in Calls : Settle(c)

SpecResolve == Init /\ [][NextResolve]_vars

\* supportsModel over the generated model identifiers
NextSupports == \E m \in ModelIds : SupportsModel(m)

SpecSupports == Init /\ [][NextSupports]_vars

\* one execute() call over the generated keys
NextKeys ==
    \/ \E v \in KeyEnvs : SetEnv(v)
    \/ \E opts \in KeyOptions : Execute(1, PlainRequest, opts)
    \/ \E r \in SmallResponses : VendorFulfil(1, r)
    \/ \E e \in VendorErrors(client[1].apiKey) : VendorReject(1, e)
    \/ Settle(1)

SpecKeys == Init /\ [][NextKeys]_vars

\* one execute() call over the generated message lists
NextMessages ==
    \/ \E req \in MessageRequests : Execute(1, req, WithKey(Str(GoodKeyA)))
    \/ \E r \in SmallResponses : VendorFulfil(1, r)
    \/ Settle(1)

SpecMessages == Init /\ [][NextMessages]_vars

\* one execute() call over the generated vendor responses
NextReplies ==
    \/ \E req \in ReplyRequests : Execute(1, req, WithKey(Str(GoodKeyA)))
    \/ \E r \in Responses : VendorFulfil(1, r)
    \/ \E e \in VendorErrors(client[1].apiKey) : VendorReject(1, e)
    \/ Settle(1)

SpecReplies == Init /\ [][NextReplies]_vars

(* ------------------------------- claims -------------------------------- *)
Started(c) == pc[c] # "idle"
Done(c) == pc[c] = "done"

\* C1: supportsModel(modelId) returns true exactly when modelId is non-empty
\* and its first six characters are "claude", and the call changes nothing
\* but the value it returns.
C1_SupportsModel ==
    [][supports' # supports =>
          /\ supports'.ret =
                (/\ supports'.model.def
                 /\ supports'.model.str # <<>>
                 /\ Len(supports'.model.str) >= 6
                 /\ SubSeq(supports'.model.str, 1, 6) = <<"c","l","a","u","d","e">>)
          /\ UNCHANGED <<env, sanitizer, pc, request, passed, options, envRead, apiKey,
                         client, outbound, creates, vendor, result>>]_vars

C1_Witness ==
    /\ supports.asked
    /\ supports.model = Str(<<"c","l","a","u","d","e","-">>)
    /\ supports.ret

\* what a call left behind that another call can be compared on
SameSoFar(c, d) ==
    /\ apiKey[c] = apiKey[d]
    /\ client[c] = client[d]
    /\ outbound[c] = outbound[d]
    /\ creates[c] = creates[d]
    /\ (vendor[c].state = "none") = (vendor[d].state = "none")
    /\ (Done(c) /\ Done(d) /\ vendor[c] = vendor[d] => result[c] = result[d])

\* C2: a call with options.apiKey = "" and a call with options.apiKey absent,
\* given the same request and the same environment value, resolve the same
\* key and have the same outcome; either falls back to the environment value,
\* and when that is unset or empty the call rejects with the error whose
\* message contains "API key is required", with no client constructed and no
\* outbound request.
C2_EmptyKeyIsAbsent ==
    /\ \A c, d \in Calls :
          (/\ Started(c) /\ Started(d)
           /\ options[c] = WithKey(Str(<<>>))
           /\ options[d] = WithKey(Undefined)
           /\ passed[c] = passed[d]
           /\ envRead[c] = envRead[d])
          => SameSoFar(c, d)
    /\ \A c \in Calls :
          (Started(c) /\ options[c].apiKey \in {Undefined, Str(<<>>)})
          => IF envRead[c].def /\ envRead[c].str # <<>>
             THEN apiKey[c] = envRead[c]
             ELSE /\ Done(c)
                  /\ result[c].kind = "error"
                  /\ Includes(result[c].error.message, <<"API key is required">>)
                  /\ ~client[c].made
                  /\ ~outbound[c].sent
                  /\ creates[c] = 0

C2_Witness ==
    \E c, d \in Calls :
        /\ options[c].apiKey = Str(<<>>)
        /\ options[d].apiKey = Undefined
        /\ envRead[c] = Str(GoodKeyB) /\ envRead[d] = Str(GoodKeyB)
        /\ Done(c) /\ Done(d)
        /\ result[c].kind = "response" /\ result[d] = result[c]

\* the key format in the claim's words: "sk-ant", optionally "-api" and one
\* or more digits, "-", then one or more letters, digits, hyphens, underscores
MatchesKeyFormat(k) ==
    /\ Len(k) >= 6
    /\ SubSeq(k, 1, 6) = <<"s","k","-","a","n","t">>
    /\ \E a \in 6..Len(k) :
          /\ \/ a = 6
             \/ /\ a >= 11
                /\ SubSeq(k, 7, 10) = <<"-","a","p","i">>
                /\ \A i \in 11..a : k[i] \in Digits
          /\ a + 2 <= Len(k)
          /\ k[a + 1] = "-"
          /\ \A i \in (a + 2)..Len(k) : k[i] \in Lower \cup Upper \cup Digits \cup {"-", "_"}

\* C3: a resolved key that is non-empty and does not match the key format
\* makes execute() reject with "Invalid Anthropic API key format", with no
\* client constructed and no outbound request; a request is issued only for a
\* non-empty key that matches, and an empty key is reported as missing, not
\* as malformed.
C3_MalformedKeyRejected ==
    \A c \in Calls :
        Started(c) =>
            /\ (Truthy(apiKey[c]) /\ ~MatchesKeyFormat(apiKey[c].str))
               => /\ Done(c)
                  /\ result[c].kind = "error"
                  /\ result[c].error.message = InvalidFormatText
                  /\ ~client[c].made
                  /\ ~outbound[c].sent
                  /\ creates[c] = 0
            /\ (outbound[c].sent \/ client[c].made)
               => Truthy(apiKey[c]) /\ MatchesKeyFormat(apiKey[c].str)
            /\ ~Truthy(apiKey[c]) => result[c].error.message = KeyRequiredText

C3_Witness ==
    /\ Done(1)
    /\ options[1].apiKey = Str(<<"s","k","-","a","n","t","-","a","p","i","0","-","!">>)
    /\ result[1].kind = "error"
    /\ result[1].error.message = InvalidFormatText
    /\ creates[1] = 0

\* the positions of the messages whose role is (is not) system or developer
SystemAt(msgs) == {i \in 1..Len(msgs) : msgs[i].role \in {"system", "developer"}}
TurnAt(msgs) == (1..Len(msgs)) \ SystemAt(msgs)

\* the k-th smallest element of S
Nth(S, k) == CHOOSE i \in S : Cardinality({j \in S : j <= i}) = k

\* C4: the turn list of the outbound request holds exactly the messages whose
\* role is neither system nor developer, one turn each, in their original
\* order, each with its role and its content as text; the system and
\* developer contents are only in the system prompt, which is their texts in
\* order, separated by blank lines and trimmed.
C4_TurnsExcludeSystem ==
    \A c \in Calls :
        outbound[c].sent =>
            LET msgs == passed[c].messages
                turns == outbound[c].params.messages
                texts == [k \in 1..Cardinality(SystemAt(msgs)) |->
                             ContentText(msgs[Nth(SystemAt(msgs), k)].content)]
                prompt == Trim(Join(texts, <<"\n", "\n">>))
            IN  /\ Len(turns) = Cardinality(TurnAt(msgs))
                /\ \A k \in 1..Len(turns) :
                      /\ turns[k].role = msgs[Nth(TurnAt(msgs), k)].role
                      /\ turns[k].content = ContentText(msgs[Nth(TurnAt(msgs), k)].content)
                      /\ turns[k].role \notin {"system", "developer"}
                /\ outbound[c].params.system =
                      IF prompt = <<>> THEN Undefined ELSE Str(prompt)

C4_Witness ==
    /\ outbound[1].sent
    /\ passed[1].messages =
          <<Msg("developer", ContentString(<<" ", "a", "\n">>)),
            Msg("user", ContentArray(<< <<"a">>, <<"b", "\"">> >>))>>
    /\ outbound[1].params.messages =
          <<[role |-> "user",
             content |-> <<"[", "\"", "a", "\"", ",", "\"", "b", "\\", "\"", "\"", "]">>]>>
    /\ outbound[1].params.system = Str(<<"a">>)

\* the positions of the tool-invocation blocks of a response
ToolUseAt(content) == {i \in 1..Len(content) : content[i].type = "tool_use"}

\* C5: with a response format of kind json_schema, a fulfilled vendor call
\* makes execute() resolve, with content the pretty-printed JSON of the input
\* of the first tool-invocation block wherever it sits, and the empty string
\* when the response has no such block.
C5_StructuredContent ==
    \A c \in Calls :
        (/\ Done(c)
         /\ passed[c].responseFormat.def
         /\ passed[c].responseFormat.type = "json_schema"
         /\ vendor[c].state = "fulfilled")
        => LET content == vendor[c].response.content IN
           /\ result[c].kind = "response"
           /\ result[c].content =
                 IF ToolUseAt(content) = {}
                 THEN <<>>
                 ELSE JSONStringifyPretty(content[Nth(ToolUseAt(content), 1)].input)

C5_Witness ==
    /\ Done(1)
    /\ passed[1] = SchemaRequest
    /\ vendor[1].response.content = <<TextBlock(Hi), ToolUseBlock(InputA)>>
    /\ result[1].kind = "response"
    /\ result[1].content =
          <<"{", "\n", " ", " ", "\"", "a", "\"", ":", " ", "1", "\n", "}">>

\* C6: a resolved execute() reports as usage.inputTokens and
\* usage.outputTokens the input and output token counters of the vendor
\* response of that call, unchanged, with and without a json_schema format.
C6_UsagePassThrough ==
    \A c \in Calls :
        (Done(c) /\ result[c].kind = "response")
        => /\ vendor[c].state = "fulfilled"
           /\ result[c].usage.inputTokens = vendor[c].response.usage.input_tokens
           /\ result[c].usage.outputTokens = vendor[c].response.usage.output_tokens

C6_Witness ==
    /\ Done(1)
    /\ result[1].kind = "response"
    /\ passed[1] = SchemaRequest
    /\ vendor[1].response.usage = [input_tokens |-> 1, output_tokens |-> 0]
    /\ result[1].usage = [inputTokens |-> 1, outputTokens |-> 0]

\* C7: no error execute() rejects with carries the key of the call in its
\* message or in its stack.
C7_NoKeyInErrors ==
    \A c \in Calls :
        (Done(c) /\ result[c].kind = "error" /\ Truthy(apiKey[c]))
        => /\ ~Includes(result[c].error.message, apiKey[c].str)
           /\ ~Includes(result[c].error.stack, apiKey[c].str)

\* what one call leaves behind, given only what was passed to it, the
\* environment value it read and what the vendor answered it
AloneState(c) ==
    LET key == IF options[c].apiKey.def /\ options[c].apiKey.str # <<>>
               THEN options[c].apiKey ELSE envRead[c]
        keyOk == key.def /\ key.str # <<>> /\ MatchesKeyFormat(key.str)
    IN  /\ request[c] = passed[c]
        /\ request[c].addMessageCalls = 0
        /\ apiKey[c] = key
        /\ IF keyOk
           THEN /\ client[c] = [made |-> TRUE, apiKey |-> key.str]
                /\ outbound[c] = [sent |-> TRUE, auth |-> key.str,
                                  params |-> CreateParams(passed[c], options[c])]
                /\ Done(c) => result[c] = SettleResult(passed[c], vendor[c], sanitizer)
           ELSE /\ client[c] = NoClient
                /\ outbound[c] = NoOutbound
                /\ Done(c) /\ result[c].kind = "error" /\ result[c].error.provider = ""

\* the per-call variables of d
CallState(d) ==
    <<pc[d], request[d], passed[d], options[d], envRead[d], apiKey[d], client[d],
      outbound[d], creates[d], vendor[d], result[d]>>

\* C8: under every interleaving, each started call has its own client with
\* its own resolved key and its own outbound request, its outcome is the one
\* its request, options, environment value and vendor answer give, its
\* request is as it was passed, and a step of one call changes nothing of
\* another call.
C8_CallsIndependent ==
    /\ [](\A c \in Calls : Started(c) => AloneState(c))
    /\ [][\E c \in Calls : \A d \in Calls \ {c} : CallState(d)' = CallState(d)]_vars

C8_Witness ==
    /\ pc[1] = "awaiting" /\ pc[2] = "awaiting"
    /\ vendor[1].state = "pending" /\ vendor[2].state = "fulfilled"
    /\ passed[1] = PlainRequest /\ passed[2] = SchemaRequest
    /\ client[1].apiKey = GoodKeyB /\ client[2].apiKey = GoodKeyA
    /\ outbound[1].auth = GoodKeyB /\ outbound[2].auth = GoodKeyA

\* C9: without a json_schema format, a fulfilled vendor call makes execute()
\* resolve with the text of the first content block when that block is
\* textual, and with the empty string otherwise, an empty block list included.
C9_FirstBlockText ==
    \A c \in Calls :
        (/\ Done(c)
         /\ ~(passed[c].responseFormat.def /\ passed[c].responseFormat.type = "json_schema")
         /\ vendor[c].state = "fulfilled")
        => LET content == vendor[c].response.content IN
           /\ result[c].kind = "response"
           /\ result[c].content =
                 IF content # <<>> /\ content[1].type = "text"
                 THEN content[1].text
                 ELSE <<>>

C10_OneRequest ==
    \A c \in Calls :
        /\ creates[c] <= 1
        /\ Started(c) =>
              creates[c] = IF Truthy(apiKey[c]) /\ MatchesKeyFormat(apiKey[c].str)
                           THEN 1 ELSE 0
        /\ (Done(c) /\ vendor[c].state = "rejected")
           => /\ result[c].kind = "error"
              /\ result[c].error.provider = "anthropic"
              /\ ~Includes(result[c].error.message, apiKey[c].str)
              /\ result[c].content = <<>>
              /\ result[c].model = <<>>
              /\ creates[c] = 1

\* C10: a call issues one outbound request when the key checks pass and none
\* when they fail, never a second one; a failed request makes it reject with
\* the redacted error tagged anthropic and no response, whatever the retries
\* and timeout options are; and once the vendor has answered or failed, the
\* call is eventually settled.
C10_SingleRequestSettles ==
    /\ []C10_OneRequest
    /\ \A c \in Calls : (vendor[c].state \in {"fulfilled", "rejected"}) ~> Done(c)

C10_Witness ==
    \E c \in Calls :
        /\ Done(c)
        /\ options[c].retries = Num(3)
        /\ vendor[c].state = "rejected"
        /\ result[c].kind = "error"
        /\ creates[c] = 1

====
